---- MODULE Spec2Model ----
(***************************************************************************)
(* Model of lop3.py, the Streamlit dashboard "Baseline Assessment          *)
(* Comparison": two uploaded workbooks are merged by load_and_prep_data,   *)
(* the merged table is filtered through five multiselects, and KPIs and    *)
(* grouped aggregates are computed from the filtered rows.                 *)
(*                                                                         *)
(* Text is a sequence of one-character strings, so that str.strip, the     *)
(* regular expression \.0$ and sorted() are computed, not assumed.  A cell *)
(* of a sheet is a record [t, s, n]: t is "nan" (an empty cell), "str"     *)
(* (text s), "int" (the integer n) or "float" (n tenths, 35 for 3.5).      *)
(* pandas is modelled as pandas 1.x/2.x behaves: Series.astype(str) turns  *)
(* every value, NaN included, into its Python str().                       *)
(***************************************************************************)
EXTENDS Integers, Sequences, FiniteSets, TLC

VARIABLES
    file1,        \* st.sidebar.file_uploader for AY 24-25: NoFile or a workbook
    file2,        \* st.sidebar.file_uploader for AY 25-26: NoFile or a workbook
    selected,     \* the five multiselects' values, by column, in selection order
    clicks,       \* number of multiselect interactions so far (bounded)
    df,           \* the unified table of the last script run
    options,      \* candidate lists (states, centres, donors, subjects, grades)
    filtered_df,  \* the filtered table of the last script run
    shown,        \* the elements the last script run displayed, in order
    kpi,          \* the Quick Metrics of the last script run
    cat_counts,   \* the category distribution rows of the last script run
    avg_subj,     \* mean Obtained Marks by (Subject, Academic Year)
    avg_state,    \* mean Obtained Marks by (State, Academic Year)
    g_in,         \* grade normalisation study: the raw grade cell
    g_once,       \* ... its normalisation
    g_twice,      \* ... the normalisation of that text
    g_stage       \* ... 0 raw, 1 normalised once, 2 normalised twice

vars == <<file1, file2, selected, clicks, df, options, filtered_df, shown, kpi,
          cat_counts, avg_subj, avg_state, g_in, g_once, g_twice, g_stage>>

dashvars == <<file1, file2, selected, clicks, df, options, filtered_df, shown,
              kpi, cat_counts, avg_subj, avg_state>>

gradevars == <<g_in, g_once, g_twice, g_stage>>

----------------------------------------------------------------------------
(* Bounds of the model.                                                    *)

\* rows taken from the sample sheet into one uploaded workbook
MaxRows == 2
\* multiselect interactions explored after an upload
MaxClicks == 1
\* multiselect interactions explored on the crafted filter tables
MaxFilterClicks == 4
\* length of the grade texts explored by the normalisation study
MaxLen == 4

----------------------------------------------------------------------------
(* Text and cells.                                                         *)

\* The characters in use, in code point order (Python compares str by code point).
CodeOrder ==
    <<"\n", " ", "-", ".", "0", "1", "2", "3", "4", "5", "6", "7", "8", "9",
      "A", "C", "D", "E", "H", "K", "L", "M", "N", "T", "Y", "a", "l", "n">>

Ord(c) == CHOOSE i \in 1..Len(CodeOrder) : CodeOrder[i] = c

\* Python's str < str: lexicographic by code point, a proper prefix is smaller.
RECURSIVE StrLess(_, _)
StrLess(a, b) ==
    IF b = <<>> THEN FALSE
    ELSE IF a = <<>> THEN TRUE
    ELSE IF Head(a) # Head(b) THEN Ord(Head(a)) < Ord(Head(b))
    ELSE StrLess(Tail(a), Tail(b))

NaN == [t |-> "nan", s |-> <<>>, n |-> 0]
Text(s) == [t |-> "str", s |-> s, n |-> 0]
IntCell(n) == [t |-> "int", s |-> <<>>, n |-> n]
FloatCell(tenths) == [t |-> "float", s |-> <<>>, n |-> tenths]

isna(c) == c.t = "nan"

DigitChar(d) == <<"0", "1", "2", "3", "4", "5", "6", "7", "8", "9">>[d + 1]

\* str(n) of a non-negative int
RECURSIVE Digits(_)
Digits(n) == IF n < 10 THEN <<DigitChar(n)>>
             ELSE Digits(n \div 10) \o <<DigitChar(n % 10)>>

\* str(x) of one cell value: str(nan) = "nan", str(3) = "3", str(3.0) = "3.0"
PyStr(c) ==
    CASE c.t = "str"   -> c.s
      [] c.t = "nan"   -> <<"n", "a", "n">>
      [] c.t = "int"   -> Digits(c.n)
      [] c.t = "float" -> Digits(c.n \div 10) \o <<".">> \o Digits(c.n % 10)

\* Series.astype(str), per element
astype_str(c) == Text(PyStr(c))

IsSpace(ch) == ch \in {" ", "\n"}

RECURSIVE lstrip(_)
lstrip(s) == IF s # <<>> /\ IsSpace(Head(s)) THEN lstrip(Tail(s)) ELSE s

RECURSIVE rstrip(_)
rstrip(s) == IF s # <<>> /\ IsSpace(s[Len(s)])
             THEN rstrip(SubSeq(s, 1, Len(s) - 1)) ELSE s

\* Series.str.strip(), per element (missing values stay missing)
strip(c) == IF c.t = "str" THEN Text(rstrip(lstrip(c.s))) ELSE c

\* The places where the pattern \.0$ matches: "$" is the end of the text or the
\* place just before a newline that ends the text.
DotZeroAt(s, i) ==
    /\ i >= 1
    /\ i + 1 <= Len(s)
    /\ s[i] = "." /\ s[i + 1] = "0"
    /\ \/ i + 1 = Len(s)
       \/ i + 2 = Len(s) /\ s[i + 2] = "\n"

\* a faulty substitution: the pattern 0$ instead of \.0$
re_sub_keeps_dot(s) ==
    IF \E i \in 1..Len(s) : DotZeroAt(s, i)
    THEN LET i == CHOOSE j \in 1..Len(s) : DotZeroAt(s, j)
         IN  SubSeq(s, 1, i)
    ELSE s

\* re.sub(r'\.0$', '', s): the one match, if any, is removed
re_sub_dot_zero(s) ==
    IF \E i \in 1..Len(s) : DotZeroAt(s, i)
    THEN LET i == CHOOSE j \in 1..Len(s) : DotZeroAt(s, j)
         IN  SubSeq(s, 1, i - 1) \o SubSeq(s, i + 2, Len(s))
    ELSE s

\* Series.str.replace(r'\.0$', '', regex=True), per element
str_replace_dot_zero(c) == IF c.t = "str" THEN Text(re_sub_dot_zero(c.s)) ELSE c

\* line 45: df_combined['Grade'].astype(str).str.replace(r'\.0$', '', regex=True)
NormalizeGrade(c) == str_replace_dot_zero(astype_str(c))

\* line 42: df_combined[col].astype(str).str.strip()
NormalizeText(c) == strip(astype_str(c))

----------------------------------------------------------------------------
(* The grade normalisation study: NormalizeGrade applied once and twice to *)
(* every grade value within the bounds.                                    *)

GradeAlphabet == {"3", ".", "0", "A", "\n"}

RECURSIVE TextsUpTo(_)
TextsUpTo(k) ==
    IF k = 0 THEN {<<>>}
    ELSE LET shorter == TextsUpTo(k - 1)
         IN  shorter \cup {Append(s, ch) : s \in {u \in shorter : Len(u) = k - 1},
                                            ch \in GradeAlphabet}

GradeInputs ==
    {Text(s) : s \in TextsUpTo(MaxLen)}
        \cup {IntCell(n) : n \in {0, 3, 10}}
        \cup {FloatCell(n) : n \in {30, 35, 100}}
        \cup {NaN}

InitGrade ==
    /\ g_in \in GradeInputs
    /\ g_once = NaN
    /\ g_twice = NaN
    /\ g_stage = 0

NormalizeOnce ==
    /\ g_stage = 0
    /\ g_once' = NormalizeGrade(g_in)
    /\ g_stage' = 1
    /\ UNCHANGED <<g_in, g_twice>>

NormalizeAgain ==
    /\ g_stage = 1
    /\ g_twice' = NormalizeGrade(g_once)
    /\ g_stage' = 2
    /\ UNCHANGED <<g_in, g_once>>

----------------------------------------------------------------------------
(* The uploaded workbooks.                                                 *)

AY2425 == <<"A", "Y", " ", "2", "4", "-", "2", "5">>
AY2526 == <<"A", "Y", " ", "2", "5", "-", "2", "6">>
All == <<"A", "l", "l">>

\* line 34: common_cols
common_cols ==
    <<"State", "Centre Name", "Donor", "Subject", "Grade", "Total Marks",
      "Obtained Marks", "Category", "Academic Year">>

Range(f) == {f[i] : i \in DOMAIN f}

\* The columns a sheet must bring itself: common_cols but the tag added in line 30.
RequiredCols == Range(common_cols) \ {"Academic Year"}

\* lines 41, 45 and 62-66: the five columns that are normalised and filtered on
TextCols == <<"State", "Centre Name", "Donor", "Subject">>
FilterCols == <<"State", "Centre Name", "Donor", "Subject", "Grade">>

AllCols == RequiredCols \cup {"Rubrics", "Academic Year", "Remarks"}

\* The sample sheet the uploaded workbooks take their rows from.  It holds text
\* with surrounding blanks, empty cells in State, Donor, Obtained Marks and
\* Category, and grades stored as float, int and text.
SampleRow(state, donor, subject, grade, marks, category) ==
    [c \in AllCols \ {"Rubrics"} |->
        CASE c = "State"          -> state
          [] c = "Centre Name"    -> Text(<<"C", "1", " ">>)
          [] c = "Donor"          -> donor
          [] c = "Subject"        -> subject
          [] c = "Grade"          -> grade
          [] c = "Total Marks"    -> IntCell(100)
          [] c = "Obtained Marks" -> marks
          [] c = "Category"       -> category
          [] c = "Academic Year"  -> Text(<<"2", "0", "2", "4">>)
          [] c = "Remarks"        -> Text(<<"a">>)]

SampleSheet ==
    << SampleRow(Text(<<" ", "K", "A">>), Text(<<"D">>), Text(<<"M">>),
                 FloatCell(30), IntCell(50), Text(<<"L">>)),
       SampleRow(Text(<<"K", "A">>), Text(<<"D">>), Text(<<"E">>),
                 IntCell(3), IntCell(71), NaN),
       SampleRow(NaN, NaN, Text(<<"M">>),
                 Text(<<"3", "A">>), NaN, Text(<<"H">>)) >>

\* The headers a sheet can have: the AY 25-26 layout (Category), the AY 24-25
\* layout (Rubrics), a sheet that already has an 'Academic Year' column and a
\* further column, and two sheets that lack a required column.  No sheet has
\* both 'Rubrics' and 'Category' (the input contract of the spec, section 4.1).
Layouts ==
    { RequiredCols,
      (RequiredCols \ {"Category"}) \cup {"Rubrics"},
      RequiredCols \cup {"Academic Year", "Remarks"},
      RequiredCols \ {"Donor"},
      RequiredCols \ {"Category"} }

\* The rows a workbook takes from the sample sheet, in the sheet's order: the
\* increasing index sequences of length <= k.
RECURSIVE Picks(_)
Picks(k) ==
    IF k = 0 THEN {<<>>}
    ELSE LET shorter == Picks(k - 1)
             longest == {q \in shorter : Len(q) = k - 1}
         IN  shorter \cup
             {Append(x[1], x[2]) :
                 x \in {y \in longest \X DOMAIN SampleSheet :
                            y[1] = <<>> \/ y[1][Len(y[1])] < y[2]}}

SheetRow(layout, i) ==
    [c \in layout |-> IF c = "Rubrics" THEN SampleSheet[i]["Category"]
                      ELSE SampleSheet[i][c]]

Workbook(layout, pick) ==
    [present |-> TRUE, readable |-> TRUE, sheet |-> TRUE, columns |-> layout,
     rows |-> [k \in DOMAIN pick |-> SheetRow(layout, pick[k])]]

NoFile ==
    [present |-> FALSE, readable |-> FALSE, sheet |-> FALSE, columns |-> {},
     rows |-> <<>>]

\* a file that is no workbook, and a workbook without the expected sheet
Unreadable == [NoFile EXCEPT !.present = TRUE]
NoSheet == [NoFile EXCEPT !.present = TRUE, !.readable = TRUE]

Uploads ==
    {Workbook(l, p) : l \in Layouts, p \in Picks(MaxRows)} \cup {Unreadable, NoSheet}

----------------------------------------------------------------------------
(* load_and_prep_data (lines 17-47).  A result is [ok, df]: ok is FALSE    *)
(* when the call raised.                                                   *)

Raised == [ok |-> FALSE, df |-> <<>>]

\* lines 20-21: pd.read_excel(file, sheet_name=...) raises on a file that is no
\* workbook and on a workbook without the sheet
read_excel(file) ==
    IF file.readable /\ file.sheet
    THEN [ok |-> TRUE, columns |-> file.columns, rows |-> file.rows]
    ELSE [ok |-> FALSE, columns |-> {}, rows |-> <<>>]

\* lines 24-27: rename 'Rubrics' to 'Category' when present
RenameCol(c) == IF c = "Rubrics" THEN "Category" ELSE c
Unrename(frame, c) ==
    IF c = "Category" /\ "Rubrics" \in frame.columns THEN "Rubrics" ELSE c

rename_rubrics(frame) ==
    [frame EXCEPT
        !.columns = {RenameCol(c) : c \in frame.columns},
        !.rows = [k \in DOMAIN frame.rows |->
                    [c \in {RenameCol(x) : x \in frame.columns} |->
                        frame.rows[k][Unrename(frame, c)]]]]

\* a faulty tag_year: a column of that name is kept as it is
tag_year_keeps_column(frame, tag) ==
    [frame EXCEPT
        !.columns = frame.columns \cup {"Academic Year"},
        !.rows = [k \in DOMAIN frame.rows |->
                    [c \in frame.columns \cup {"Academic Year"} |->
                        IF c \in frame.columns THEN frame.rows[k][c]
                        ELSE Text(tag)]]]

\* lines 30-31: df['Academic Year'] = tag sets the column in every row, and
\* replaces a column of that name
tag_year(frame, tag) ==
    [frame EXCEPT
        !.columns = frame.columns \cup {"Academic Year"},
        !.rows = [k \in DOMAIN frame.rows |->
                    [c \in frame.columns \cup {"Academic Year"} |->
                        IF c = "Academic Year" THEN Text(tag)
                        ELSE frame.rows[k][c]]]]

\* line 38: frame[common_cols] raises KeyError when a column is missing
project(frame) ==
    IF Range(common_cols) \subseteq frame.columns
    THEN [ok |-> TRUE,
          rows |-> [k \in DOMAIN frame.rows |->
                      [c \in Range(common_cols) |-> frame.rows[k][c]]]]
    ELSE [ok |-> FALSE, rows |-> <<>>]

\* a faulty concat: the second frame first
concat_swapped(a, b) == b \o a

\* line 38: pd.concat([a, b], ignore_index=True)
concat(a, b) == a \o b

\* lines 41-45: the four text columns are stripped, Grade loses a trailing ".0"
normalize_row(r) ==
    [c \in DOMAIN r |->
        IF c \in Range(TextCols) THEN NormalizeText(r[c])
        ELSE IF c = "Grade" THEN NormalizeGrade(r[c])
        ELSE r[c]]

\* a faulty merge: a missing column of the second sheet goes unnoticed
load_and_prep_data_unchecked_second(f1, f2) ==
    LET r1 == read_excel(f1)
        r2 == read_excel(f2)
    IN  IF ~(r1.ok /\ r2.ok) THEN Raised
        ELSE LET p1 == project(tag_year(rename_rubrics(r1), AY2425))
                 p2 == project(tag_year(rename_rubrics(r2), AY2526))
             IN  IF ~p1.ok THEN Raised
                 ELSE [ok |-> TRUE,
                       df |-> [k \in DOMAIN concat(p1.rows, p2.rows) |->
                                 normalize_row(concat(p1.rows, p2.rows)[k])]]

load_and_prep_data(f1, f2) ==
    LET r1 == read_excel(f1)
        r2 == read_excel(f2)
    IN  IF ~(r1.ok /\ r2.ok) THEN Raised
        ELSE LET p1 == project(tag_year(rename_rubrics(r1), AY2425))
                 p2 == project(tag_year(rename_rubrics(r2), AY2526))
             IN  IF ~(p1.ok /\ p2.ok) THEN Raised
                 ELSE [ok |-> TRUE,
                       df |-> [k \in DOMAIN concat(p1.rows, p2.rows) |->
                                 normalize_row(concat(p1.rows, p2.rows)[k])]]

----------------------------------------------------------------------------
(* The script body after a successful merge (lines 55-150).                *)

\* Series.dropna(): the values that are not missing, in order
dropna(cells) == SelectSeq(cells, LAMBDA c : ~isna(c))

\* Series.unique().tolist(): the distinct values in order of first appearance
RECURSIVE unique(_)
unique(xs) ==
    IF xs = <<>> THEN <<>>
    ELSE LET front == unique(SubSeq(xs, 1, Len(xs) - 1))
             x == xs[Len(xs)]
         IN  IF x \in Range(front) THEN front ELSE Append(front, x)

\* list.sort's insertion of one text into a sorted list
RECURSIVE insert_sorted(_, _)
insert_sorted(x, ys) ==
    IF ys = <<>> THEN <<x>>
    ELSE IF StrLess(x, Head(ys)) THEN <<x>> \o ys
    ELSE <<Head(ys)>> \o insert_sorted(x, Tail(ys))

\* sorted(list of str): ascending by code point
RECURSIVE sorted(_)
sorted(xs) == IF xs = <<>> THEN <<>> ELSE insert_sorted(Head(xs), sorted(Tail(xs)))

column(table, c) == [k \in DOMAIN table |-> table[k][c]]

texts(cells) == [k \in DOMAIN cells |-> cells[k].s]

\* lines 62-66: ["All"] + sorted(df[c].dropna().unique().tolist())
candidates(table, c) == <<All>> \o sorted(unique(texts(dropna(column(table, c)))))

\* Series.isin(values): a missing value is in no list of texts
isin(cell, values) == ~isna(cell) /\ cell.s \in Range(values)

\* a faulty filter: skipped only when the selection is "All" alone
apply_filter_only_all(table, c, sel) ==
    IF sel # <<All>>
    THEN SelectSeq(table, LAMBDA r : isin(r[c], sel))
    ELSE table

\* lines 78-91, one column: if "All" not in selected: keep the rows that are in
apply_filter(table, c, sel) ==
    IF All \notin Range(sel)
    THEN SelectSeq(table, LAMBDA r : isin(r[c], sel))
    ELSE table

\* faulty filters: each is applied to the unified table, the last one wins
RECURSIVE apply_filters_last_only(_, _, _)
apply_filters_last_only(table, sel, k) ==
    IF k = 0 THEN table
    ELSE IF All \notin Range(sel[FilterCols[k]])
    THEN apply_filter(table, FilterCols[k], sel[FilterCols[k]])
    ELSE apply_filters_last_only(table, sel, k - 1)

\* lines 76-91: the five filters, one after the other
RECURSIVE apply_filters(_, _, _)
apply_filters(table, sel, k) ==
    IF k = 0 THEN table
    ELSE apply_filter(apply_filters(table, sel, k - 1), FilterCols[k],
                      sel[FilterCols[k]])

\* A mean is [num, den]: the sum and the number of the values that are not
\* missing; den = 0 is NaN (Series.mean skips NaN, and is NaN of nothing).
RECURSIVE SumCells(_)
SumCells(cells) == IF cells = <<>> THEN 0 ELSE Head(cells).n + SumCells(Tail(cells))

\* a faulty mean: missing values count in the denominator
mean_counting_missing(cells) == [num |-> SumCells(dropna(cells)), den |-> Len(cells)]

mean(cells) == [num |-> SumCells(dropna(cells)), den |-> Len(dropna(cells))]

notna(m) == m.den # 0

\* f"{x:.2f}" as a number of hundredths: x rounded to two decimals, a tie to even
Fmt2(m) ==
    LET q == (100 * m.num) \div m.den
        rest == 100 * m.num - q * m.den
    IN  IF 2 * rest < m.den THEN q
        ELSE IF 2 * rest > m.den THEN q + 1
        ELSE IF q % 2 = 0 THEN q ELSE q + 1

NoText == [t |-> "None", h |-> 0]
NotAvailable == [t |-> "N/A", h |-> 0]
Number(h) == [t |-> "num", h |-> h]

\* lines 105-106: f"{avg:.2f}" if pd.notna(avg) else "N/A"
metric_text(m) == IF notna(m) THEN Number(Fmt2(m)) ELSE NotAvailable

\* avg_marks_25 - avg_marks_24 of two means that are numbers
minus(a, b) == [num |-> a.num * b.den - b.num * a.den, den |-> a.den * b.den]

\* lines 107-108: delta=f"{avg_marks_25 - avg_marks_24:.2f}" if both notna else None
delta_text(avg_24, avg_25) ==
    IF notna(avg_24) /\ notna(avg_25) THEN Number(Fmt2(minus(avg_25, avg_24)))
    ELSE NoText

of_year(table, tag) == SelectSeq(table, LAMBDA r : r["Academic Year"] = Text(tag))

NoKpi ==
    [computed |-> FALSE, total_students |-> 0,
     avg_marks_24 |-> mean(<<>>), avg_marks_25 |-> mean(<<>>),
     metric_24 |-> NoText, metric_25 |-> NoText, delta |-> NoText]

\* lines 100-108
quick_metrics(table) ==
    LET avg_marks_24 == mean(column(of_year(table, AY2425), "Obtained Marks"))
        avg_marks_25 == mean(column(of_year(table, AY2526), "Obtained Marks"))
    IN  [computed |-> TRUE, total_students |-> Len(table),
         avg_marks_24 |-> avg_marks_24, avg_marks_25 |-> avg_marks_25,
         metric_24 |-> metric_text(avg_marks_24),
         metric_25 |-> metric_text(avg_marks_25),
         delta |-> delta_text(avg_marks_24, avg_marks_25)]

\* groupby([a, b]) keys: the pairs of rows where neither value is missing
\* (dropna=True), sorted by the first text and then the second (sort=True)
PairLess(x, y) == StrLess(x[1], y[1]) \/ (x[1] = y[1] /\ StrLess(x[2], y[2]))

RECURSIVE SortPairs(_)
SortPairs(S) ==
    IF S = {} THEN <<>>
    ELSE LET least == CHOOSE x \in S : \A y \in S \ {x} : PairLess(x, y)
         IN  <<least>> \o SortPairs(S \ {least})

in_group(r, a, b, key) ==
    /\ ~isna(r[a]) /\ ~isna(r[b])
    /\ <<r[a].s, r[b].s>> = key

group_keys(table, a, b) ==
    SortPairs({<<table[k][a].s, table[k][b].s>> :
                 k \in {j \in DOMAIN table : ~isna(table[j][a]) /\ ~isna(table[j][b])}})

group_rows(table, a, b, key) == SelectSeq(table, LAMBDA r : in_group(r, a, b, key))

\* lines 119 and 142: groupby([c, 'Academic Year'])['Obtained Marks'].mean()
group_means(table, c) ==
    LET keys == group_keys(table, c, "Academic Year")
    IN  [k \in DOMAIN keys |->
            [key |-> keys[k][1], year |-> keys[k][2],
             mean |-> mean(column(group_rows(table, c, "Academic Year", keys[k]),
                                  "Obtained Marks"))]]

\* line 131: groupby(['Academic Year', 'Category']).size().reset_index(name='Count')
category_sizes(table) ==
    LET keys == group_keys(table, "Academic Year", "Category")
    IN  [k \in DOMAIN keys |->
            [year |-> keys[k][1], category |-> keys[k][2],
             Count |-> Len(group_rows(table, "Academic Year", "Category", keys[k]))]]

RECURSIVE SumCounts(_)
SumCounts(rows) == IF rows = <<>> THEN 0 ELSE Head(rows).Count + SumCounts(Tail(rows))

\* a faulty distribution: percentages of all rows, not per Academic Year
category_distribution_joint(table) ==
    LET sizes == category_sizes(table)
    IN  [k \in DOMAIN sizes |->
            [year |-> sizes[k].year, category |-> sizes[k].category,
             Count |-> sizes[k].Count,
             Percentage |-> [num |-> 100 * sizes[k].Count, den |-> SumCounts(sizes)]]]

\* lines 132-133: Count / (the sum of the Counts of the same Academic Year) * 100,
\* kept as the fraction num / den
category_distribution(table) ==
    LET sizes == category_sizes(table)
    IN  [k \in DOMAIN sizes |->
            [year |-> sizes[k].year, category |-> sizes[k].category,
             Count |-> sizes[k].Count,
             Percentage |->
                [num |-> 100 * sizes[k].Count,
                 den |-> SumCounts(SelectSeq(sizes,
                                     LAMBDA g : g.year = sizes[k].year))]]]

DefaultSelection == [c \in Range(FilterCols) |-> <<All>>]
NoOptions == [c \in Range(FilterCols) |-> <<>>]

Blank ==
    [df |-> <<>>, options |-> NoOptions, filtered_df |-> <<>>, shown |-> <<>>,
     kpi |-> NoKpi, cat_counts |-> <<>>, avg_subj |-> <<>>, avg_state |-> <<>>]

\* a faulty report: no check for an empty filtered table
report_unguarded(out) ==
    [out EXCEPT
        !.kpi = quick_metrics(out.filtered_df),
        !.avg_subj = group_means(out.filtered_df, "Subject"),
        !.cat_counts = category_distribution(out.filtered_df),
        !.avg_state = group_means(out.filtered_df, "State"),
        !.shown = out.shown \o <<"kpis", "chart_subject", "chart_category",
                                 "chart_state", "raw_data">>]

\* lines 93-150: the warning, or the metrics, the three charts and the raw data
report(out) ==
    IF out.filtered_df = <<>>
    THEN [out EXCEPT !.shown = out.shown \o <<"warning">>]
    ELSE [out EXCEPT
            !.kpi = quick_metrics(out.filtered_df),
            !.avg_subj = group_means(out.filtered_df, "Subject"),
            !.cat_counts = category_distribution(out.filtered_df),
            !.avg_state = group_means(out.filtered_df, "State"),
            !.shown = out.shown \o <<"kpis", "chart_subject", "chart_category",
                                     "chart_state", "raw_data">>]

\* lines 50-155: one run of the script
script(f1, f2, sel) ==
    IF ~(f1.present /\ f2.present) THEN [Blank EXCEPT !.shown = <<"info">>]
    ELSE LET merged == load_and_prep_data(f1, f2)
         IN  IF ~merged.ok THEN [Blank EXCEPT !.shown = <<"error">>]
             ELSE report([Blank EXCEPT
                     !.df = merged.df,
                     !.options = [c \in Range(FilterCols) |-> candidates(merged.df, c)],
                     !.filtered_df = apply_filters(merged.df, sel, Len(FilterCols)),
                     !.shown = <<"success", "filters">>])

----------------------------------------------------------------------------
(* The session: uploads and multiselect interactions, each followed by a   *)
(* run of the script.                                                      *)

Rerun(f1, f2, sel) ==
    LET out == script(f1, f2, sel)
    IN  /\ df' = out.df
        /\ options' = out.options
        /\ filtered_df' = out.filtered_df
        /\ shown' = out.shown
        /\ kpi' = out.kpi
        /\ cat_counts' = out.cat_counts
        /\ avg_subj' = out.avg_subj
        /\ avg_state' = out.avg_state

GradeIdle == g_in = NaN /\ g_once = NaN /\ g_twice = NaN /\ g_stage = 0

\* The first run of the script: no file is uploaded yet (line 155).
Init ==
    /\ file1 = NoFile
    /\ file2 = NoFile
    /\ selected = DefaultSelection
    /\ clicks = 0
    /\ df = <<>>
    /\ options = NoOptions
    /\ filtered_df = <<>>
    /\ shown = <<"info">>
    /\ kpi = NoKpi
    /\ cat_counts = <<>>
    /\ avg_subj = <<>>
    /\ avg_state = <<>>
    /\ GradeIdle

\* line 13: a workbook is put into the first uploader
Upload1(src) ==
    /\ ~file1.present
    /\ file1' = src
    /\ Rerun(src, file2, selected)
    /\ UNCHANGED <<file2, selected, clicks, gradevars>>

\* line 14: a workbook is put into the second uploader
Upload2(src) ==
    /\ ~file2.present
    /\ file2' = src
    /\ Rerun(file1, src, selected)
    /\ UNCHANGED <<file1, selected, clicks, gradevars>>

\* lines 69-73: st.sidebar.multiselect lets the user add any option of the list
\* that is not yet selected; the value lists the options in selection order
SelectOption(c, opt, limit) ==
    /\ "filters" \in Range(shown)
    /\ clicks < limit
    /\ opt \in Range(options[c])
    /\ opt \notin Range(selected[c])
    /\ selected' = [selected EXCEPT ![c] = Append(@, opt)]
    /\ clicks' = clicks + 1
    /\ Rerun(file1, file2, selected')
    /\ UNCHANGED <<file1, file2, gradevars>>

\* lines 69-73: ... and remove any selected option
DeselectOption(c, opt, limit) ==
    /\ "filters" \in Range(shown)
    /\ clicks < limit
    /\ opt \in Range(selected[c])
    /\ selected' = [selected EXCEPT ![c] = SelectSeq(@, LAMBDA o : o # opt)]
    /\ clicks' = clicks + 1
    /\ Rerun(file1, file2, selected')
    /\ UNCHANGED <<file1, file2, gradevars>>

OptionTexts == UNION {Range(options[c]) : c \in Range(FilterCols)}

Next ==
    \/ \E src \in Uploads : Upload1(src)
    \/ \E src \in Uploads : Upload2(src)
    \/ \E c \in Range(FilterCols), opt \in OptionTexts : SelectOption(c, opt, MaxClicks)
    \/ \E c \in Range(FilterCols), opt \in OptionTexts : DeselectOption(c, opt, MaxClicks)

Spec == Init /\ [][Next]_vars

----------------------------------------------------------------------------
(* The filters explored in depth: the session right after two workbooks of *)
(* the sample sheet were uploaded, then multiselect interactions only.     *)

\* rows 1-2 of the sample sheet against rows 2-3, either way round
FilterUploads ==
    { <<Workbook(RequiredCols, <<1, 2>>), Workbook(RequiredCols, <<2, 3>>)>>,
      <<Workbook(RequiredCols, <<2, 3>>), Workbook(RequiredCols, <<1, 2>>)>> }

InitFilter ==
    /\ \E pair \in FilterUploads : file1 = pair[1] /\ file2 = pair[2]
    /\ selected = DefaultSelection
    /\ clicks = 0
    /\ LET out == script(file1, file2, selected)
       IN  /\ df = out.df
           /\ options = out.options
           /\ filtered_df = out.filtered_df
           /\ shown = out.shown
           /\ kpi = out.kpi
           /\ cat_counts = out.cat_counts
           /\ avg_subj = out.avg_subj
           /\ avg_state = out.avg_state
    /\ GradeIdle

NextFilter ==
    \/ \E c \in Range(FilterCols), opt \in OptionTexts :
          SelectOption(c, opt, MaxFilterClicks)
    \/ \E c \in Range(FilterCols), opt \in OptionTexts :
          DeselectOption(c, opt, MaxFilterClicks)

SpecFilter == InitFilter /\ [][NextFilter]_vars

----------------------------------------------------------------------------
(* The grade normalisation study as a specification of its own.            *)

InitGradeStudy ==
    /\ file1 = NoFile
    /\ file2 = NoFile
    /\ selected = DefaultSelection
    /\ clicks = 0
    /\ df = <<>>
    /\ options = NoOptions
    /\ filtered_df = <<>>
    /\ shown = <<"info">>
    /\ kpi = NoKpi
    /\ cat_counts = <<>>
    /\ avg_subj = <<>>
    /\ avg_state = <<>>
    /\ InitGrade

NextGrade ==
    \/ NormalizeOnce /\ UNCHANGED dashvars
    \/ NormalizeAgain /\ UNCHANGED dashvars

SpecGrade == InitGradeStudy /\ [][NextGrade]_vars

----------------------------------------------------------------------------
(* Properties.                                                             *)

\* A workbook that load_and_prep_data accepts: readable, with the sheet, and
\* with every required column, 'Category' possibly under the name 'Rubrics'.
ValidSource(f) ==
    /\ f.present /\ f.readable /\ f.sheet
    /\ \A c \in RequiredCols :
          c \in f.columns \/ (c = "Category" /\ "Rubrics" \in f.columns)

BothUploaded == file1.present /\ file2.present

\* A row of the unified table is the given row of a workbook: the cells that no
\* normalisation touches are the workbook's.
IsSourceRow(r, f, k) ==
    /\ r["Total Marks"] = f.rows[k]["Total Marks"]
    /\ r["Obtained Marks"] = f.rows[k]["Obtained Marks"]
    /\ r["Category"] = f.rows[k][IF "Rubrics" \in f.columns THEN "Rubrics"
                                 ELSE "Category"]

\* C1: for two workbooks that both have every required column, the unified
\* table is the first workbook's rows in their order followed by the second's
\* in theirs, none dropped or duplicated: its length is the sum of the two.
C1_ConcatKeepsRowsInOrder ==
    (BothUploaded /\ ValidSource(file1) /\ ValidSource(file2)) =>
        /\ "success" \in Range(shown)
        /\ Len(df) = Len(file1.rows) + Len(file2.rows)
        /\ \A k \in DOMAIN file1.rows : IsSourceRow(df[k], file1, k)
        /\ \A k \in DOMAIN file2.rows :
              IsSourceRow(df[Len(file1.rows) + k], file2, k)

C1_Witness ==
    /\ BothUploaded /\ ValidSource(file1) /\ ValidSource(file2)
    /\ Len(file1.rows) = 2 /\ Len(file2.rows) = 1
    /\ "Rubrics" \in file1.columns
    /\ ~IsSourceRow(df[1], file2, 1)
    /\ Len(df) = 3

\* C2: every row of the unified table carries the tag of the upload it came
\* from, "AY 24-25" for the first and "AY 25-26" for the second, whatever an
\* 'Academic Year' column of the workbook said.
C2_YearTagMatchesSource ==
    "success" \in Range(shown) =>
        \A k \in DOMAIN df :
            /\ k <= Len(file1.rows) => df[k]["Academic Year"] = Text(AY2425)
            /\ k > Len(file1.rows) => df[k]["Academic Year"] = Text(AY2526)

C2_Witness ==
    /\ "success" \in Range(shown)
    /\ "Academic Year" \in file1.columns /\ "Academic Year" \in file2.columns
    /\ Len(file1.rows) >= 1 /\ Len(file2.rows) >= 1
    /\ file1.rows[1]["Academic Year"] # Text(AY2425)
    /\ df[1]["Academic Year"] = Text(AY2425)
    /\ df[Len(df)]["Academic Year"] = Text(AY2526)

\* The criteria of the specification's data model: per column the sentinel
\* "All" alone, or explicit values without the sentinel.
WellFormed(sel) == \A c \in Range(FilterCols) : sel[c] = <<All>> \/ All \notin Range(sel[c])

\* A row meets the criteria: for every column that is not "All", its value is
\* one of the column's allowed values.
MeetsCriteria(r) ==
    \A c \in Range(FilterCols) :
        selected[c] = <<All>> \/ (\E i \in DOMAIN selected[c] : Text(selected[c][i]) = r[c])

\* C3: under criteria that are "All" or an allow-list per column, the filtered
\* table is exactly the rows of the unified table, in order, whose value is in
\* the allow-list of every column that is not "All"; all "All" keeps the table.
C3_FilterIsConjunctionOfAllowLists ==
    ("filters" \in Range(shown) /\ WellFormed(selected)) =>
        /\ filtered_df = SelectSeq(df, MeetsCriteria)
        /\ selected = DefaultSelection => filtered_df = df

C3_Witness ==
    /\ "filters" \in Range(shown) /\ WellFormed(selected)
    /\ selected["State"] # <<All>> /\ selected["Subject"] # <<All>>
    /\ Len(selected["Grade"]) = 1
    /\ Len(filtered_df) >= 1
    /\ \E k \in DOMAIN df : MeetsCriteria(df[k]) /\ k > 1
    /\ \E k \in DOMAIN df :
          /\ Text(selected["State"][1]) = df[k]["State"]
          /\ Text(selected["Subject"][1]) # df[k]["Subject"]
    /\ \E k \in DOMAIN df :
          /\ Text(selected["State"][1]) # df[k]["State"]
          /\ Text(selected["Subject"][1]) = df[k]["Subject"]

\* A row passes the filters as the script reads a selection: a column whose
\* selection holds "All" is not filtered on.
Passes(r) ==
    \A c \in Range(FilterCols) :
        All \in Range(selected[c]) \/ (\E i \in DOMAIN selected[c] : Text(selected[c][i]) = r[c])

NothingComputed ==
    /\ ~kpi.computed
    /\ cat_counts = <<>> /\ avg_subj = <<>> /\ avg_state = <<>>
    /\ \A i \in DOMAIN shown :
          shown[i] \notin {"kpis", "chart_subject", "chart_category", "chart_state",
                           "raw_data"}

\* C4: when no row of the unified table passes the filters the run ends in the
\* "no data" state: the warning is shown, no KPI and no aggregate is computed
\* or displayed and no error is shown; aggregates exist only when a row passes.
C4_EmptyResultSkipsAggregation ==
    /\ ("filters" \in Range(shown) /\ \A k \in DOMAIN df : ~Passes(df[k])) =>
          /\ shown = <<"success", "filters", "warning">>
          /\ NothingComputed
    /\ (kpi.computed \/ "kpis" \in Range(shown)) =>
          /\ \E k \in DOMAIN df : Passes(df[k])
          /\ "warning" \notin Range(shown)

C4_Witness ==
    /\ "warning" \in Range(shown)
    /\ Len(df) >= 1
    /\ selected["State"] # <<>> /\ selected["Subject"] # <<>>
    /\ All \notin Range(selected["State"]) /\ All \notin Range(selected["Subject"])
    /\ \E k \in DOMAIN df : Text(selected["Subject"][1]) = df[k]["Subject"]
    /\ \E k \in DOMAIN df : Text(selected["State"][1]) = df[k]["State"]

\* The filtered rows of one Academic Year, and those of them with marks.
YearRows(tag) ==
    {k \in DOMAIN filtered_df : filtered_df[k]["Academic Year"] = Text(tag)}

Marked(tag) == {k \in YearRows(tag) : filtered_df[k]["Obtained Marks"].t = "int"}

RECURSIVE SumMarks(_)
SumMarks(S) ==
    IF S = {} THEN 0
    ELSE LET k == CHOOSE j \in S : TRUE
         IN  filtered_df[k]["Obtained Marks"].n + SumMarks(S \ {k})

\* h hundredths is the fraction num / den (den > 0) rounded to two decimals
IsRounded(h, num, den) ==
    LET gap == 100 * num - h * den
    IN  2 * gap <= den /\ 2 * gap >= -den

\* the delta is the difference of the means of the marks of rows24 and rows25
DeltaIsDifference(rows24, rows25) ==
    /\ kpi.delta.t = "num"
    /\ IsRounded(kpi.delta.h,
                 SumMarks(rows25) * Cardinality(rows24)
                     - SumMarks(rows24) * Cardinality(rows25),
                 Cardinality(rows24) * Cardinality(rows25))

\* C5 as stated: the delta is None exactly when the filtered rows of a year
\* form an empty group, and is otherwise the difference of the two means
\* (passed to the display with two decimals).
C5_DeltaNoneIffGroupEmpty ==
    kpi.computed =>
        /\ kpi.delta = NoText <=> (YearRows(AY2425) = {} \/ YearRows(AY2526) = {})
        /\ kpi.delta # NoText => DeltaIsDifference(Marked(AY2425), Marked(AY2526))

\* C5, amended: the delta is None exactly when a year has no filtered row with
\* Obtained Marks (an empty group, or one whose marks are all missing), and is
\* otherwise the mean of the AY 25-26 marks that are present minus the mean of
\* the AY 24-25 marks that are present, passed to the display with two decimals.
C5_DeltaNoneIffNoMarks ==
    kpi.computed =>
        /\ kpi.delta = NoText <=> (Marked(AY2425) = {} \/ Marked(AY2526) = {})
        /\ kpi.delta # NoText => DeltaIsDifference(Marked(AY2425), Marked(AY2526))
        /\ kpi.total_students = Cardinality(DOMAIN filtered_df)

C5_Witness ==
    /\ kpi.computed
    /\ kpi.delta.t = "num" /\ kpi.delta.h # 0
    /\ Marked(AY2425) # YearRows(AY2425)
    /\ Cardinality(Marked(AY2526)) = 2

\* The category distribution rows of one Academic Year.
Entries(tag) == {i \in DOMAIN cat_counts : cat_counts[i].year = tag}

Categorised(tag) == {k \in YearRows(tag) : filtered_df[k]["Category"].t = "str"}

RECURSIVE SumPercentages(_)
SumPercentages(S) ==
    IF S = {} THEN 0
    ELSE LET i == CHOOSE j \in S : TRUE
         IN  cat_counts[i].Percentage.num + SumPercentages(S \ {i})

\* C6 as stated: for every Academic Year present in the filtered table, each
\* count is a percentage of the year's total filtered row count, and the
\* year's percentages sum to 100.
C6_PercentOfYearRowCount ==
    kpi.computed =>
        \A tag \in {AY2425, AY2526} :
            YearRows(tag) # {} =>
                /\ Entries(tag) # {}
                /\ \A i \in Entries(tag) :
                      cat_counts[i].Percentage.den = Cardinality(YearRows(tag))
                /\ SumPercentages(Entries(tag)) = 100 * Cardinality(YearRows(tag))

\* C6, amended: each (Academic Year, Category) count is a percentage of the
\* number of that year's filtered rows that have a Category; the percentages
\* of a year with such a row sum to 100, whatever the other year holds, and a
\* year whose rows all lack a Category has no percentage at all.
C6_PercentOfCategorisedRows ==
    kpi.computed =>
        \A tag \in {AY2425, AY2526} :
            /\ Categorised(tag) = {} <=> Entries(tag) = {}
            /\ \A i \in Entries(tag) :
                  /\ cat_counts[i].Count =
                        Cardinality({k \in Categorised(tag) :
                            filtered_df[k]["Category"] = Text(cat_counts[i].category)})
                  /\ cat_counts[i].Count >= 1
                  /\ cat_counts[i].Percentage =
                        [num |-> 100 * cat_counts[i].Count,
                         den |-> Cardinality(Categorised(tag))]
            /\ \A i, j \in Entries(tag) :
                  cat_counts[i].category = cat_counts[j].category => i = j
            /\ Categorised(tag) # {} =>
                  SumPercentages(Entries(tag)) = 100 * Cardinality(Categorised(tag))

C6_Witness ==
    /\ kpi.computed
    /\ Cardinality(Entries(AY2425)) = 1
    /\ Categorised(AY2425) # YearRows(AY2425)
    /\ Cardinality(Entries(AY2526)) = 2

EndsDotZero(s) == Len(s) >= 2 /\ s[Len(s) - 1] = "." /\ s[Len(s)] = "0"

EndsNewline(s) == s # <<>> /\ s[Len(s)] = "\n"

\* the text ends in ".0", or in ".0" and one final newline
EndsDotZeroLine(s) ==
    EndsDotZero(s) \/ (EndsNewline(s) /\ EndsDotZero(SubSeq(s, 1, Len(s) - 1)))

\* C7 as stated: grade normalisation is idempotent: for every grade value,
\* normalising the normalised value gives the normalised value.
C7_NormalizeIdempotent == g_stage = 2 => g_twice = g_once

\* C7, amended: normalisation takes the value's text and removes one trailing
\* ".0" (also one followed by a single final newline), nothing else; so a
\* second normalisation changes the result exactly when that still ends in
\* ".0" ("3.0.0" gives "3.0", then "3"), and a text that ends neither in ".0"
\* nor in ".0" and a newline passes through unchanged.
C7_NormalizeStripsOneDotZero ==
    /\ g_stage >= 1 =>
          LET s == PyStr(g_in)
              body == IF EndsNewline(s) THEN SubSeq(s, 1, Len(s) - 1) ELSE s
          IN  /\ g_once.t = "str"
              /\ EndsDotZero(s) => g_once.s = SubSeq(s, 1, Len(s) - 2)
              /\ (EndsNewline(s) /\ EndsDotZero(body)) =>
                    g_once.s = Append(SubSeq(body, 1, Len(body) - 2), "\n")
              /\ ~EndsDotZeroLine(s) => g_once.s = s
    /\ g_stage = 2 => (g_twice = g_once <=> ~EndsDotZeroLine(g_once.s))

C7_Witness ==
    /\ g_stage = 2
    /\ g_in = FloatCell(30)
    /\ g_once = Text(<<"3">>)
    /\ g_twice = g_once

\* C8: when merging fails (a file that cannot be read, a missing sheet, a
\* required column missing after the rename) the run shows the one error
\* message and nothing else: no success notice, no filters, no KPI, no chart,
\* no table.
C8_MergeFailureShowsOnlyError ==
    (BothUploaded /\ ~(ValidSource(file1) /\ ValidSource(file2))) =>
        /\ shown = <<"error">>
        /\ df = <<>> /\ filtered_df = <<>> /\ options = NoOptions
        /\ NothingComputed

C8_Witness ==
    /\ BothUploaded
    /\ ValidSource(file1) /\ Len(file1.rows) >= 1
    /\ file2.readable /\ file2.sheet /\ Len(file2.rows) >= 1
    /\ "Category" \notin file2.columns /\ "Rubrics" \notin file2.columns
    /\ shown = <<"error">>

\* the non-missing cells of a column in the two workbooks, normalised
SourceValues(c) ==
    UNION {{(IF c = "Grade" THEN NormalizeGrade(f.rows[k][c])
             ELSE NormalizeText(f.rows[k][c])).s :
               k \in {j \in DOMAIN f.rows : ~isna(f.rows[j][c])}} :
           f \in {file1, file2}}

\* C9 as stated: each candidate list is "All" followed by the distinct
\* non-missing values of the column, ascending, without duplicates; a value
\* that was missing in the workbook is no candidate.
C9_CandidatesAreNonMissingValues ==
    "filters" \in Range(shown) =>
        \A c \in Range(FilterCols) :
            LET opts == options[c]
            IN  /\ opts # <<>> /\ opts[1] = All
                /\ \A i \in 2..(Len(opts) - 1) : StrLess(opts[i], opts[i + 1])
                /\ {opts[i] : i \in 2..Len(opts)} = SourceValues(c)

\* C10 as stated: a column's selection is "All" alone or explicit values,
\* never both.
C10_SentinelExclusive == WellFormed(selected)

NoDuplicates(xs) == \A i, j \in DOMAIN xs : xs[i] = xs[j] => i = j

\* C10, amended: a column's selection is any duplicate-free list of its
\* candidates and can hold "All" together with explicit values; the filter
\* then reads it as "All": a row is kept exactly when it is allowed by every
\* column whose selection does not hold "All".
C10_AllWinsInMixedSelection ==
    "filters" \in Range(shown) =>
        /\ \A c \in Range(FilterCols) :
              /\ NoDuplicates(selected[c])
              /\ Range(selected[c]) \subseteq Range(options[c])
        /\ filtered_df = SelectSeq(df, Passes)

C10_Witness ==
    /\ "filters" \in Range(shown)
    /\ All \in Range(selected["State"]) /\ Len(selected["State"]) = 2
    /\ All \notin Range(selected["Subject"]) /\ selected["Subject"] # <<>>
    /\ \E k \in DOMAIN df : df[k]["State"].s \notin Range(selected["State"])
    /\ filtered_df # <<>> /\ Len(filtered_df) < Len(df)
    /\ \E k \in DOMAIN filtered_df :
          filtered_df[k]["State"].s \notin Range(selected["State"])

====
